---- MODULE Spec2Model ----
(***************************************************************************)
(* Model of the query-answering workflow: the AgentState record, the six   *)
(* node functions of query_workflows.py, the graph wired by                *)
(* workflow_setup.setup_workflow and the invocation in main.py.            *)
(*                                                                         *)
(* Texts are sequences of one-character strings, so that lower(), strip(), *)
(* join() and substring containment are computed character by character.  *)
(***************************************************************************)
EXTENDS Integers, Sequences, FiniteSets, TLC

(***************************************************************************)
(* Bounds                                                                  *)
(***************************************************************************)
\* longest result list the retrieval adapter returns in the model
MaxRetrieved == 4

\* number of traversals running side by side in the concurrent model
NumTraversals == 2

(***************************************************************************)
(* Program constants                                                       *)
(***************************************************************************)
\* documents[:3] in retrieve_documents
TOP_K == 3

\* the node names given to workflow.add_node, and langgraph's END
END == "__end__"

Nodes ==
    {"rewriter", "retrieve_documents", "topic_decision",
     "off_topic_response", "rerank_documents", "generate_answer"}

\* a graph entered at the retrieval node
entry_point_at_retrieve == "retrieve_documents"

\* workflow.set_entry_point("rewriter")
entry_point == "rewriter"

\* a graph whose last edge leads back to the rewriter instead of END
edges_with_cycle ==
    {<<"rewriter", "retrieve_documents">>,
     <<"retrieve_documents", "topic_decision">>,
     <<"rerank_documents", "generate_answer">>,
     <<"generate_answer", "rewriter">>}

\* a graph in which off_topic_response leads on to rerank_documents
edges_off_topic_continues ==
    {<<"rewriter", "retrieve_documents">>,
     <<"retrieve_documents", "topic_decision">>,
     <<"off_topic_response", "rerank_documents">>,
     <<"rerank_documents", "generate_answer">>,
     <<"generate_answer", END>>}

\* workflow.add_edge(a, b): the unconditional edges, as <<a, b>> pairs
edges ==
    {<<"rewriter", "retrieve_documents">>,
     <<"retrieve_documents", "topic_decision">>,
     <<"rerank_documents", "generate_answer">>,
     <<"generate_answer", END>>}

\* the path map of workflow.add_conditional_edges("topic_decision", ...)
conditional_source == "topic_decision"

\* a path map that sends on-topic questions straight to generate_answer
path_map_skip_rerank ==
    [x \in {"on-topic", "off-topic"} |->
        IF x = "on-topic" THEN "generate_answer" ELSE "off_topic_response"]

\* a path map with the two targets exchanged
path_map_swapped ==
    [x \in {"on-topic", "off-topic"} |->
        IF x = "on-topic" THEN "off_topic_response" ELSE "rerank_documents"]

path_map == [x \in {"on-topic", "off-topic"} |->
                IF x = "on-topic" THEN "rerank_documents" ELSE "off_topic_response"]

\* a lambda with the comparison negated
condition_inverted(state) ==
    IF state["classification_result"] # "on-topic" THEN "on-topic" ELSE "off-topic"

\* the lambda of add_conditional_edges
condition(state) ==
    IF state["classification_result"] = "on-topic" THEN "on-topic" ELSE "off-topic"

\* the literal tested by on_topic_classifier
ON_TOPIC == <<"o", "n", "-", "t", "o", "p", "i", "c">>

\* the sentence off_topic_response stores
OFF_TOPIC_SENTENCE ==
    <<"T", "h", "e", " ", "q", "u", "e", "s", "t", "i", "o", "n", " ", "i", "s",
      " ", "o", "f", "f", "-", "t", "o", "p", "i", "c", ",", " ", "e", "n", "d",
      "i", "n", "g", " ", "t", "h", "e", " ", "p", "r", "o", "c", "e", "s", "s",
      ".">>

\* the default of result.get('llm_output', ...) in main.py
PROCESS_ENDED ==
    <<"P", "r", "o", "c", "e", "s", "s", " ", "e", "n", "d", "e", "d", ".">>

\* the separator literal '\\n' of the joins: a backslash followed by n
JOIN_SEPARATOR == <<"\\", "n">>

(***************************************************************************)
(* Inputs of the model                                                     *)
(***************************************************************************)
\* the question of main.py
Q_MICHAEL ==
    <<"W", "h", "a", "t", " ", "t", "a", "s", "k", "s", " ", "a", "r", "e", " ",
      "M", "i", "c", "h", "a", "e", "l", " ", "i", "n", "v", "o", "l", "v", "e",
      "d", " ", "i", "n", "?">>

Questions == {Q_MICHAEL, <<>>}

\* texts the generation service may return to any prompt
T_ON == <<"o", "n", "-", "t", "o", "p", "i", "c">>
T_ON_CAP == <<"O", "n", "-", "T", "o", "p", "i", "c">>
T_ON_UPPER == <<"O", "N", "-", "T", "O", "P", "I", "C">>
T_YES == <<"Y", "e", "s", ",", " ", "o", "n", "-", "t", "o", "p", "i", "c", ".">>
T_OFF ==
    <<"T", "h", "i", "s", " ", "a", "p", "p", "e", "a", "r", "s", " ", "o", "f",
      "f", "-", "t", "o", "p", "i", "c", ".">>
T_PADDED ==
    <<" ", "1", "s", "t", " ", "p", "r", "e", "f", "e", "r", "e", "n", "c", "e",
      ":", " ", "d", "1", "\n">>
T_EMPTY == <<>>

LLMTexts ==
    {T_ON, T_ON_CAP, T_ON_UPPER, T_YES, T_OFF, T_PADDED, T_EMPTY}

\* the replies considered for the ranking prompt: padded, plain and empty
RankingTexts == {T_PADDED, T_YES, T_EMPTY}

\* the replies considered for the answer prompt: plain and empty
AnswerTexts == {T_YES, T_EMPTY}

\* Document objects of the corpus: text content and a metadata mapping
Docs ==
    {[page_content |-> <<"d", "1">>,
      metadata |-> [source |-> "Sales Team Channel", created_at |-> "2024-08-22"]],
     [page_content |-> <<"d", "2">>,
      metadata |-> [source |-> "Sales Team Channel", created_at |-> "2024-08-23"]]}

\* the result lists the retrieval adapter may return
Retrievals == UNION {[1..n -> Docs] : n \in 0..MaxRetrieved}

(***************************************************************************)
(* Text functions                                                          *)
(***************************************************************************)
UpperToLower ==
    [A |-> "a", B |-> "b", C |-> "c", D |-> "d", E |-> "e", F |-> "f",
     G |-> "g", H |-> "h", I |-> "i", J |-> "j", K |-> "k", L |-> "l",
     M |-> "m", N |-> "n", O |-> "o", P |-> "p", Q |-> "q", R |-> "r",
     S |-> "s", T |-> "t", U |-> "u", V |-> "v", W |-> "w", X |-> "x",
     Y |-> "y", Z |-> "z"]

\* str.lower()
lower(s) ==
    [i \in 1..Len(s) |->
        IF s[i] \in DOMAIN UpperToLower THEN UpperToLower[s[i]] ELSE s[i]]

\* the Python test  sub in s
contains(sub, s) ==
    \E i \in 1..(Len(s) - Len(sub) + 1) : SubSeq(s, i, i + Len(sub) - 1) = sub

Whitespace == {" ", "\n", "\t", "\r", "\f"}

RECURSIVE lstrip(_)
lstrip(s) ==
    IF s # <<>> /\ Head(s) \in Whitespace THEN lstrip(Tail(s)) ELSE s

RECURSIVE rstrip(_)
rstrip(s) ==
    IF s # <<>> /\ s[Len(s)] \in Whitespace
    THEN rstrip(SubSeq(s, 1, Len(s) - 1))
    ELSE s

\* str.strip()
strip(s) == rstrip(lstrip(s))

RECURSIVE join(_, _)
\* sep.join(items)
join(sep, items) ==
    IF items = <<>> THEN <<>>
    ELSE IF Len(items) = 1 THEN items[1]
    ELSE items[1] \o sep \o join(sep, Tail(items))

\* a slice that keeps one element too many
slice_to_one_more(items, k) ==
    SubSeq(items, 1, IF Len(items) < k + 1 THEN Len(items) ELSE k + 1)

\* documents[:k]
slice_to(items, k) ==
    SubSeq(items, 1, IF Len(items) < k THEN Len(items) ELSE k)

\* an assignment that does not replace the value of a key already present
Put_keeps_existing(d, k, v) ==
    [x \in DOMAIN d \cup {k} |-> IF x \in DOMAIN d THEN d[x] ELSE v]

\* dict item assignment  d[k] = v
Put(d, k, v) == [x \in DOMAIN d \cup {k} |-> IF x = k THEN v ELSE d[x]]

(***************************************************************************)
(* Pure functions of query_workflows.py and llm_setup.py                   *)
(***************************************************************************)
\* a classifier that forgets .lower()
on_topic_classifier_case_sensitive(response) ==
    IF contains(ON_TOPIC, response) THEN "on-topic" ELSE "off-topic"

on_topic_classifier(response) ==
    IF contains(ON_TOPIC, lower(response)) THEN "on-topic" ELSE "off-topic"

create_prompt(question) ==
    [system |-> "SYSTEM_MESSAGE_REWRITER",
     human |-> [template |-> "HUMAN_MESSAGE_TEMPLATE_REWRITER", question |-> question]]

format_classifier_prompt(question, documents) ==
    [template |-> "CLASSIFIER_PROMPT_TEMPLATE",
     question |-> question,
     documents |-> join(JOIN_SEPARATOR, documents)]

create_classifier_prompt(question, documents) ==
    [system |-> "CLASSIFIER_INTRODUCTION",
     human |-> format_classifier_prompt(question, documents)]


\* the separator literal "\\\\n" of input_data in question_classifier
INPUT_DATA_SEPARATOR == <<"\\", "\\", "n">>

reranker_prompt(question, top_documents) ==
    [template |-> "RERANKING_PROMPT_TEMPLATE",
     question |-> question,
     documents |-> top_documents]

answer_prompt == [template |-> "ANSWER_TEMPLATE"]

(***************************************************************************)
(* What each node function does to the state it is given                   *)
(***************************************************************************)
\* rewriter, line 41
rewriter_result(state, rewritten_question) ==
    Put(state, "question", rewritten_question)

\* retrieve_documents, line 59
retrieve_documents_result(state, documents) ==
    LET top == slice_to(documents, TOP_K)
    IN  Put(state, "top_documents", [i \in 1..Len(top) |-> top[i].page_content])

\* question_classifier, lines 148-151
question_classifier_result(state, raw_classification_result) ==
    Put(state, "classification_result",
        on_topic_classifier(raw_classification_result))

\* an off-topic responder that also empties the stored documents
off_topic_response_result_clears_documents(state) ==
    Put(Put(state, "llm_output", OFF_TOPIC_SENTENCE), "top_documents", <<>>)

\* off_topic_response, line 159
off_topic_response_result(state) ==
    Put(state, "llm_output", OFF_TOPIC_SENTENCE)

\* a reranker that also stores the ranking text as the question
rerank_documents_result_writes_question(state, ranking_result) ==
    Put(Put(state, "top_documents", <<strip(ranking_result)>>),
        "question", strip(ranking_result))

\* rerank_documents, line 188
rerank_documents_result(state, ranking_result) ==
    Put(state, "top_documents", <<strip(ranking_result)>>)

\* generate_answer, line 216
generate_answer_result(state, answer) ==
    Put(state, "llm_output", answer)

(***************************************************************************)
(* Backend selection (llm_setup.get_llm, vector_store.get_embeddings)      *)
(***************************************************************************)
\* the environment variable LLM_TYPE: not set, or one of these values
UNSET == "<unset>"

LLM_TYPES == {UNSET, "ollama", "openai", "gemini"}

\* constants.LLMType.OLLAMA.value
LLMType_OLLAMA == "ollama"

\* os.getenv(name, default) for a variable whose setting is value
getenv(value, default) == IF value = UNSET THEN default ELSE value

get_llm(LLM_TYPE) ==
    LET llm_type == getenv(LLM_TYPE, LLMType_OLLAMA)
    IN  IF llm_type = LLMType_OLLAMA THEN "ChatOllama" ELSE "ChatOpenAI"

get_embeddings(LLM_TYPE) ==
    LET embedding_type == getenv(LLM_TYPE, LLMType_OLLAMA)
    IN  IF embedding_type = LLMType_OLLAMA
        THEN "OllamaEmbeddings"
        ELSE "OpenAIEmbeddings"

(***************************************************************************)
(* State                                                                   *)
(***************************************************************************)
VARIABLES
    environ,        \* the setting of LLM_TYPE in the process environment
    agent_state,    \* the AgentState dict held by the executor: key -> value
    node,           \* the node the executor is at
    phase,          \* "node": the node is about to run; "edges": it returned
    status,         \* "ready", "running", "ended", "raised", "logged"
    error,          \* the exception that ended the traversal, if any
    started,        \* history: the nodes entered, in order
    completed,      \* history: the nodes that returned, in order
    writes,         \* history: <<node, key>> for each item assignment
    calls,          \* history: the adapter invocations, in order
    branch_evals,   \* history: the evaluations of the conditional edge
    result,         \* the dict app.invoke returned to main
    final_answer,   \* the text main logs
    instances,      \* concurrent model: the AgentState of each traversal
    positions,      \* concurrent model: the node each traversal is at
    replies         \* concurrent model: history of the adapter replies of
                    \* each traversal

vars ==
    <<environ, agent_state, node, phase, status, error, started, completed, writes,
      calls, branch_evals, result, final_answer, instances, positions,
      replies>>

\* the variables of the single traversal of main.py
main_vars ==
    <<environ, agent_state, node, phase, status, error, started, completed,
      writes, calls, branch_evals, result, final_answer>>

\* the variables of the concurrent model
concurrent_vars == <<instances, positions, replies>>

NoError == [stage |-> "none", kind |-> "none"]
NoResult == [x \in {} |-> <<>>]
NoAnswer == <<"<", "n", "o", "n", "e", ">">>

\* state = {"question": ...}; the graph is compiled, nothing has run
Init ==
    /\ environ \in LLM_TYPES
    /\ \E q \in Questions : agent_state = [k \in {"question"} |-> q]
    /\ node = "__start__"
    /\ phase = "edges"
    /\ status = "ready"
    /\ error = NoError
    /\ started = <<>>
    /\ completed = <<>>
    /\ writes = <<>>
    /\ calls = <<>>
    /\ branch_evals = <<>>
    /\ result = NoResult
    /\ final_answer = NoAnswer
    /\ instances = <<>>
    /\ positions = <<>>
    /\ replies = <<>>

(***************************************************************************)
(* The executor                                                            *)
(***************************************************************************)
\* app.invoke(state): the run starts at the entry point
invoke ==
    /\ status = "ready"
    /\ status' = "running"
    /\ node' = entry_point
    /\ phase' = "node"
    /\ UNCHANGED <<concurrent_vars, environ, agent_state, error, started, completed, writes, calls,
                   branch_evals, result, final_answer>>

\* an executor that answers an exception by routing to off_topic_response
Raise_then_off_topic(kind) ==
    /\ status' = status
    /\ error' = [stage |-> node, kind |-> kind]
    /\ node' = "off_topic_response"
    /\ phase' = "node"
    /\ UNCHANGED <<concurrent_vars, environ, agent_state, completed, writes, branch_evals, result,
                   final_answer>>

\* an exception leaves the node: nothing is written back, the run is over
Raise(kind) ==
    /\ status' = "raised"
    /\ error' = [stage |-> node, kind |-> kind]
    /\ UNCHANGED <<concurrent_vars, environ, agent_state, node, phase, completed, writes, branch_evals,
                   result, final_answer>>

\* the node returns new_state after assigning the given keys
Return(new_state, keys) ==
    /\ agent_state' = new_state
    /\ completed' = Append(completed, node)
    /\ writes' = writes \o [i \in 1..Len(keys) |-> <<node, keys[i]>>]
    /\ phase' = "edges"
    /\ UNCHANGED <<concurrent_vars, environ, node, status, error, branch_evals, result,
                   final_answer>>

\* a node is entered
Enters(name) ==
    /\ status = "running"
    /\ phase = "node"
    /\ node = name
    /\ started' = Append(started, name)

(***************************************************************************)
(* The adapters                                                            *)
(***************************************************************************)
\* one invocation of an adapter by the running node, as recorded in calls
Invocation(adapter, request, ok, reply) ==
    [adapter |-> adapter, stage |-> node, request |-> request,
     backend |-> IF adapter = "generation"
                 THEN get_llm(environ)
                 ELSE get_embeddings(environ),
     ok |-> ok, reply |-> reply]

\* a pipeline that invokes the chain a second time before returning reply
process_with_pipeline_invokes_twice(prompt, inputs, reply) ==
    calls' = Append(Append(calls,
                           Invocation("generation",
                                      [prompt |-> prompt, inputs |-> inputs],
                                      TRUE, reply)),
                    Invocation("generation",
                               [prompt |-> prompt, inputs |-> inputs],
                               TRUE, reply))

\* llm_setup.process_with_pipeline(prompt, inputs) returning reply
process_with_pipeline(prompt, inputs, reply) ==
    calls' = Append(calls, Invocation("generation",
                                      [prompt |-> prompt, inputs |-> inputs],
                                      TRUE, reply))

\* llm_setup.process_with_pipeline(prompt, inputs) raising
process_with_pipeline_raises(prompt, inputs) ==
    /\ calls' = Append(calls, Invocation("generation",
                                         [prompt |-> prompt, inputs |-> inputs],
                                         FALSE, <<>>))
    /\ Raise("GenerationError")

\* vector_store.retriever.invoke(question) returning documents
retriever_invoke(question, documents) ==
    calls' = Append(calls, Invocation("retrieval", question, TRUE, documents))

\* vector_store.retriever.invoke(question) raising
retriever_invoke_raises(question) ==
    /\ calls' = Append(calls, Invocation("retrieval", question, FALSE, <<>>))
    /\ Raise("RetrievalError")

\* utils.log_with_horizontal_line / log_ordered_list_with_horizontal_break
\* raising: os.get_terminal_size() fails when stdout is not a terminal
log_raises == Raise("OSError")

(***************************************************************************)
(* The nodes (query_workflows.py)                                          *)
(***************************************************************************)
rewriter ==
    /\ Enters("rewriter")
    /\ LET question == agent_state["question"]
           prompt == create_prompt(question)
           inputs == [question |-> question]
       IN  \/ /\ calls' = calls
              /\ log_raises
           \/ process_with_pipeline_raises(prompt, inputs)
           \/ \E rewritten_question \in LLMTexts :
                /\ process_with_pipeline(prompt, inputs, rewritten_question)
                /\ \/ log_raises
                   \/ Return(rewriter_result(agent_state, rewritten_question),
                             <<"question">>)

retrieve_documents ==
    /\ Enters("retrieve_documents")
    /\ LET question == agent_state["question"]
       IN  \/ /\ calls' = calls
              /\ log_raises
           \/ retriever_invoke_raises(question)
           \/ \E documents \in Retrievals :
                /\ retriever_invoke(question, documents)
                /\ \/ log_raises
                   \/ Return(retrieve_documents_result(agent_state, documents),
                             <<"top_documents">>)

question_classifier ==
    /\ Enters("topic_decision")
    /\ LET question == agent_state["question"]
           documents == agent_state["top_documents"]
           input_data == [question |-> question,
                          documents |-> join(INPUT_DATA_SEPARATOR, documents)]
           classifier_prompt == create_classifier_prompt(question, documents)
       IN  \/ /\ calls' = calls
              /\ log_raises
           \/ process_with_pipeline_raises(classifier_prompt, input_data)
           \/ \E raw_classification_result \in LLMTexts :
                /\ process_with_pipeline(classifier_prompt, input_data,
                                         raw_classification_result)
                /\ \/ log_raises
                   \/ Return(question_classifier_result(agent_state,
                                                        raw_classification_result),
                             <<"classification_result">>)

off_topic_response ==
    /\ Enters("off_topic_response")
    /\ calls' = calls
    /\ \/ log_raises
       \/ Return(off_topic_response_result(agent_state), <<"llm_output">>)

rerank_documents ==
    /\ Enters("rerank_documents")
    /\ LET question == agent_state["question"]
           top_documents == agent_state["top_documents"]
           prompt == reranker_prompt(question, top_documents)
           inputs == [question |-> question, documents |-> top_documents]
       IN  \/ /\ calls' = calls
              /\ log_raises
           \/ process_with_pipeline_raises(prompt, inputs)
           \/ \E ranking_result \in RankingTexts :
                /\ process_with_pipeline(prompt, inputs, ranking_result)
                /\ \/ log_raises
                   \/ Return(rerank_documents_result(agent_state, ranking_result),
                             <<"top_documents">>)

generate_answer ==
    /\ Enters("generate_answer")
    /\ LET question == agent_state["question"]
           context == join(JOIN_SEPARATOR, agent_state["top_documents"])
           inputs == [question |-> question, context |-> context]
       IN  \/ /\ calls' = calls
              /\ log_raises
           \/ process_with_pipeline_raises(answer_prompt, inputs)
           \/ \E answer \in AnswerTexts :
                /\ process_with_pipeline(answer_prompt, inputs, answer)
                /\ \/ log_raises
                   \/ Return(generate_answer_result(agent_state, answer),
                             <<"llm_output">>)

(***************************************************************************)
(* The edges (workflow_setup.py) and the caller (main.py)                  *)
(***************************************************************************)
AtEdges == status = "running" /\ phase = "edges"

\* the successor of a node along its unconditional edge
successor(n) == CHOOSE m \in Nodes \cup {END} : <<n, m>> \in edges

\* workflow.add_edge(a, b) with b a node: b runs next
follow_edge ==
    /\ AtEdges
    /\ \E m \in Nodes : <<node, m>> \in edges
    /\ node' = successor(node)
    /\ phase' = "node"
    /\ UNCHANGED <<concurrent_vars, environ, agent_state, status, error, started, completed, writes,
                   calls, branch_evals, result, final_answer>>

\* the conditional edge out of topic_decision
conditional_edge ==
    /\ AtEdges
    /\ node = conditional_source
    /\ LET key == condition(agent_state)
       IN  /\ branch_evals' = Append(branch_evals,
                                     [completed |-> completed,
                                      started |-> started,
                                      writes |-> writes,
                                      key |-> key,
                                      target |-> path_map[key]])
           /\ node' = path_map[key]
    /\ phase' = "node"
    /\ UNCHANGED <<concurrent_vars, environ, agent_state, status, error, started, completed, writes,
                   calls, result, final_answer>>

\* the run is over when the node's edge leads to END, or when the node has
\* no outgoing edge at all (off_topic_response); app.invoke returns the state
finish ==
    /\ AtEdges
    /\ node # conditional_source
    /\ \/ <<node, END>> \in edges
       \/ \A m \in Nodes \cup {END} : <<node, m>> \notin edges
    /\ status' = "ended"
    /\ result' = agent_state
    /\ UNCHANGED <<concurrent_vars, environ, agent_state, node, phase, error, started, completed, writes,
                   calls, branch_evals, final_answer>>

\* dict.get(key, default)
get(d, key, default) == IF key \in DOMAIN d THEN d[key] ELSE default

\* main.py line 36: the final answer is formatted and logged
log_final_answer ==
    /\ status = "ended"
    /\ final_answer' = get(result, "llm_output", PROCESS_ENDED)
    /\ \/ status' = "logged" /\ error' = error
       \/ status' = "raised" /\ error' = [stage |-> "__main__", kind |-> "OSError"]
    /\ UNCHANGED <<concurrent_vars, environ, agent_state, node, phase, started, completed, writes, calls,
                   branch_evals, result>>

Next ==
    \/ invoke
    \/ rewriter
    \/ retrieve_documents
    \/ question_classifier
    \/ off_topic_response
    \/ rerank_documents
    \/ generate_answer
    \/ follow_edge
    \/ conditional_edge
    \/ finish
    \/ log_final_answer

Spec == Init /\ [][Next]_vars

\* the program is one sequential thread: it keeps taking its next step
FairSpec == Spec /\ WF_vars(Next)

\* main.py has logged the final answer or died of an exception
Over == status \in {"logged", "raised"}

(***************************************************************************)
(* Several traversals side by side: each app.invoke call works on the      *)
(* state it was given; the node functions assign only to their agent_state *)
(* argument; the retriever and the compiled graph are shared and only read *)
(***************************************************************************)
Traversals == 1..NumTraversals

\* the replies considered in the concurrent model
ConcurrentTexts == {T_ON_CAP, T_OFF}

\* the rankings and answers considered in the concurrent model
ConcurrentAnswers == {T_ON_CAP}

ConcurrentRetrievals ==
    {r \in Retrievals : Len(r) \in {0, 2} /\ (Len(r) = 2 => r[1] # r[2])}

\* the state traversal t is invoked with
input_state(t) ==
    [k \in {"question"} |-> IF t % 2 = 1 THEN Q_MICHAEL ELSE T_ON]

\* all traversals write into the state of the first one
own_shared(t) == 1

\* the state instance the node functions of traversal t read and assign:
\* their agent_state argument
own(t) == t

\* the node that runs after node n returned state
next_node(n, state) ==
    IF n = conditional_source THEN path_map[condition(state)]
    ELSE IF \E m \in Nodes \cup {END} : <<n, m>> \in edges THEN successor(n)
    ELSE END

ConcurrentInit ==
    /\ environ = UNSET
    /\ agent_state = input_state(1)
    /\ node = "__start__"
    /\ phase = "edges"
    /\ status = "ready"
    /\ error = NoError
    /\ started = <<>>
    /\ completed = <<>>
    /\ writes = <<>>
    /\ calls = <<>>
    /\ branch_evals = <<>>
    /\ result = NoResult
    /\ final_answer = NoAnswer
    /\ instances = [t \in Traversals |-> input_state(t)]
    /\ positions = [t \in Traversals |-> entry_point]
    /\ replies = [t \in Traversals |-> <<>>]

\* the node of traversal t returns new_state, having received reply
Advance(t, new_state, reply) ==
    /\ instances' = [instances EXCEPT ![own(t)] = new_state]
    /\ positions' = [positions EXCEPT ![t] = next_node(positions[t], new_state)]
    /\ replies' = [replies EXCEPT ![t] = Append(@, reply)]
    /\ UNCHANGED main_vars

concurrent_rewriter(t) ==
    /\ positions[t] = "rewriter"
    /\ \E rewritten_question \in ConcurrentTexts :
          Advance(t, rewriter_result(instances[own(t)], rewritten_question),
                  rewritten_question)

concurrent_retrieve_documents(t) ==
    /\ positions[t] = "retrieve_documents"
    /\ \E documents \in ConcurrentRetrievals :
          Advance(t, retrieve_documents_result(instances[own(t)], documents),
                  documents)

concurrent_question_classifier(t) ==
    /\ positions[t] = "topic_decision"
    /\ \E raw_classification_result \in ConcurrentTexts :
          Advance(t, question_classifier_result(instances[own(t)],
                                                raw_classification_result),
                  raw_classification_result)

concurrent_off_topic_response(t) ==
    /\ positions[t] = "off_topic_response"
    /\ Advance(t, off_topic_response_result(instances[own(t)]), <<>>)

concurrent_rerank_documents(t) ==
    /\ positions[t] = "rerank_documents"
    /\ \E ranking_result \in ConcurrentAnswers :
          Advance(t, rerank_documents_result(instances[own(t)], ranking_result),
                  ranking_result)

concurrent_generate_answer(t) ==
    /\ positions[t] = "generate_answer"
    /\ \E answer \in ConcurrentAnswers :
          Advance(t, generate_answer_result(instances[own(t)], answer), answer)

\* the node of traversal t raises (adapter or log call): nothing is assigned
concurrent_raise(t) ==
    /\ positions[t] \in Nodes
    /\ positions' = [positions EXCEPT ![t] = "raised"]
    /\ UNCHANGED <<instances, replies, main_vars>>

ConcurrentNext ==
    \E t \in Traversals :
        \/ concurrent_rewriter(t)
        \/ concurrent_retrieve_documents(t)
        \/ concurrent_question_classifier(t)
        \/ concurrent_off_topic_response(t)
        \/ concurrent_rerank_documents(t)
        \/ concurrent_generate_answer(t)
        \/ concurrent_raise(t)

ConcurrentSpec == ConcurrentInit /\ [][ConcurrentNext]_vars

(***************************************************************************)
(* Vocabulary of the properties                                            *)
(***************************************************************************)
OnTopicPath ==
    <<"rewriter", "retrieve_documents", "topic_decision", "rerank_documents",
      "generate_answer">>

OffTopicPath ==
    <<"rewriter", "retrieve_documents", "topic_decision", "off_topic_response">>

IsPrefix(s, t) == Len(s) <= Len(t) /\ SubSeq(t, 1, Len(s)) = s

Last(s) == s[Len(s)]

Executed(n) == \E i \in 1..Len(started) : started[i] = n

Completed(n) == \E i \in 1..Len(completed) : completed[i] = n

Occurrences(s, x) == Cardinality({i \in 1..Len(s) : s[i] = x})

\* app.invoke returned to main
TraversalReturned ==
    \/ status \in {"ended", "logged"}
    \/ status = "raised" /\ error.stage = "__main__"

\* an exception left a node
TraversalAborted == error.stage \in Nodes

Has(key) == key \in DOMAIN agent_state

\* the invocations made by node n
CallsOf(n) == {i \in 1..Len(calls) : calls[i].stage = n}

(***************************************************************************)
(* C1                                                                      *)
(***************************************************************************)
\* C1: the stages entered so far form a prefix of the on-topic path or of
\* the off-topic path (so the rewriter is first), every stage entered except
\* possibly the last has returned, and a stage is entered only when all the
\* stages before it have returned.
C1_StageOrder ==
    /\ IsPrefix(started, OnTopicPath) \/ IsPrefix(started, OffTopicPath)
    /\ IsPrefix(completed, started)
    /\ Len(started) - Len(completed) <= 1
    /\ (status = "running" /\ phase = "node") => completed = started
    /\ (status = "running" /\ phase = "node" /\ started = <<>>) => node = "rewriter"

C1_Witness == status = "ended" /\ started = OnTopicPath /\ completed = OnTopicPath

RECURSIVE ReachableWithin(_, _)
ReachableWithin(n, k) ==
    IF k = 0 THEN {}
    ELSE LET direct == {m \in Nodes :
                          \/ <<n, m>> \in edges
                          \/ /\ n = conditional_source
                             /\ \E x \in DOMAIN path_map : path_map[x] = m}
         IN  direct \cup UNION {ReachableWithin(m, k - 1) : m \in direct}

\* no node of the wired graph can be reached from itself
GraphIsAcyclic ==
    \A n \in Nodes : n \notin ReachableWithin(n, Cardinality(Nodes))

\* C4: no node is entered twice in one traversal, and no node of the graph
\* can be reached from itself.
C4_AtMostOnce ==
    /\ \A n \in Nodes : Occurrences(started, n) <= 1
    /\ \A n \in Nodes : Occurrences(completed, n) <= 1
    /\ GraphIsAcyclic

C4_Witness ==
    /\ status = "ended"
    /\ Len(started) = 5
    /\ \A n \in Nodes \ {"off_topic_response"} : Occurrences(started, n) = 1

(***************************************************************************)
(* C5                                                                      *)
(***************************************************************************)
\* the two written forms of each character of "on-topic"
Forms(c) ==
    CASE c = "o" -> {"o", "O"}
      [] c = "n" -> {"n", "N"}
      [] c = "t" -> {"t", "T"}
      [] c = "p" -> {"p", "P"}
      [] c = "i" -> {"i", "I"}
      [] c = "c" -> {"c", "C"}
      [] OTHER -> {c}

\* "on-topic" occurs in raw at some position, in any mix of cases
OccursIgnoringCase(raw) ==
    \E i \in 1..(Len(raw) - 7) :
        \A j \in 1..8 : raw[i + j - 1] \in Forms(ON_TOPIC[j])

\* the raw response the classifier node received
RawClassification == calls[CHOOSE i \in CallsOf("topic_decision") : TRUE].reply

\* C5: after the classifier node, classification_result is on-topic exactly
\* when "on-topic" occurs in the raw response in some mix of upper and lower
\* case; it is off-topic otherwise, in particular for the empty response.
C5_ClassificationMapping ==
    Completed("topic_decision") =>
        /\ agent_state["classification_result"] \in {"on-topic", "off-topic"}
        /\ agent_state["classification_result"] = "on-topic"
              <=> OccursIgnoringCase(RawClassification)
        /\ RawClassification \in {T_ON, T_ON_CAP, T_ON_UPPER} =>
              agent_state["classification_result"] = "on-topic"
        /\ RawClassification = <<>> =>
              agent_state["classification_result"] = "off-topic"

C5_Witness ==
    /\ Completed("topic_decision")
    /\ RawClassification = T_ON_UPPER
    /\ agent_state["classification_result"] = "on-topic"

(***************************************************************************)
(* C6                                                                      *)
(***************************************************************************)
\* the documents the retrieval adapter returned
Retrieved == calls[CHOOSE i \in CallsOf("retrieve_documents") : TRUE].reply

Min(a, b) == IF a < b THEN a ELSE b

\* C6: right after retrieve_documents, top_documents holds the text of the
\* first min(N, 3) of the N documents returned, in the order returned.
C6_TopKTruncation ==
    (completed # <<>> /\ Last(completed) = "retrieve_documents") =>
        /\ Len(agent_state["top_documents"]) = Min(Len(Retrieved), 3)
        /\ \A i \in 1..Len(agent_state["top_documents"]) :
              agent_state["top_documents"][i] = Retrieved[i].page_content

C6_Witness ==
    /\ completed # <<>>
    /\ Last(completed) = "retrieve_documents"
    /\ Len(Retrieved) = 4
    /\ Len(agent_state["top_documents"]) = 3
    /\ Retrieved[1] # Retrieved[2]

(***************************************************************************)
(* C7                                                                      *)
(***************************************************************************)
\* C7 (state part): when a node raised, it is the last node entered, it did
\* not return, and every node entered before it had returned.
C7_AbortedAtStage ==
    TraversalAborted =>
        /\ status = "raised"
        /\ started # <<>>
        /\ Last(started) = error.stage
        /\ completed = SubSeq(started, 1, Len(started) - 1)
        /\ Occurrences(started, error.stage) = 1
        /\ result = NoResult

\* C7: a traversal in which a node raised stops there: the failed node is
\* the last one entered, it is entered once, and from then on no node is
\* entered, no adapter is called and the state is not touched.
C7_FailureAborts ==
    /\ []C7_AbortedAtStage
    /\ [][TraversalAborted => UNCHANGED vars]_vars

C7_Witness ==
    /\ TraversalAborted
    /\ error = [stage |-> "topic_decision", kind |-> "GenerationError"]

(***************************************************************************)
(* C8                                                                      *)
(***************************************************************************)
\* C8: a traversal is aborted only if one of its generation or retrieval
\* calls raised; otherwise it ends right after generate_answer or right
\* after off_topic_response, with llm_output set.
C8_ReachesTerminal ==
    /\ TraversalAborted => \E i \in 1..Len(calls) : ~calls[i].ok
    /\ TraversalReturned =>
          /\ Last(completed) \in {"generate_answer", "off_topic_response"}
          /\ "llm_output" \in DOMAIN result

\* under FairSpec every run of the program comes to an end
EventuallyOver == <>Over

\* an aborted traversal in which no generation or retrieval call raised was
\* aborted by a log call
OnlyLogAbortsOtherwise ==
    (TraversalAborted /\ \A i \in 1..Len(calls) : calls[i].ok) =>
        error.kind = "OSError"

(***************************************************************************)
(* C9                                                                      *)
(***************************************************************************)
\* C9: a traversal that returned carries a non-empty llm_output, and an
\* aborted traversal carries an error and no result.
C9_NeverEmptyOutput ==
    /\ TraversalReturned =>
          /\ "llm_output" \in DOMAIN result
          /\ result["llm_output"] # <<>>
    /\ TraversalAborted => (error # NoError /\ result = NoResult)

(***************************************************************************)
(* C10                                                                     *)
(***************************************************************************)
ClassificationWrites ==
    {i \in 1..Len(writes) : writes[i][2] = "classification_result"}

OutputWrites == {i \in 1..Len(writes) : writes[i][2] = "llm_output"}

\* C11: llm_output is assigned at most once, by generate_answer on the
\* on-topic branch or by off_topic_response on the off-topic branch, and
\* the node that assigned it is the last node entered.
C11_OutputWrittenOnce ==
    /\ Cardinality(OutputWrites) <= 1
    /\ Has("llm_output") <=> OutputWrites # {}
    /\ \A i \in OutputWrites :
          /\ writes[i][1] \in {"generate_answer", "off_topic_response"}
          /\ i = Len(writes)
          /\ Last(started) = writes[i][1]
          /\ Last(completed) = writes[i][1]
          /\ Len(branch_evals) = 1
          /\ writes[i][1] = "generate_answer" <=>
                branch_evals[1].target = "rerank_documents"
          /\ writes[i][1] = "off_topic_response" <=>
                branch_evals[1].target = "off_topic_response"

C11_Witness ==
    /\ status = "ended"
    /\ OutputWrites # {}
    /\ writes[Len(writes)] = <<"generate_answer", "llm_output">>

(***************************************************************************)
(* C12                                                                     *)
(***************************************************************************)
\* the request and the reply of the adapter invocation made by node n
RequestOf(n) == calls[CHOOSE i \in CallsOf(n) : TRUE].request

ReplyOf(n) == calls[CHOOSE i \in CallsOf(n) : TRUE].reply

JustCompleted(n) == completed # <<>> /\ Last(completed) = n

\* C12: right after the rewriter, question is the text the generation call
\* returned with its surrounding whitespace removed, and it is not empty.
C12_RewriteTrimmed ==
    JustCompleted("rewriter") =>
        /\ agent_state["question"] = strip(ReplyOf("rewriter"))
        /\ agent_state["question"] # <<>>

(***************************************************************************)
(* C13                                                                     *)
(***************************************************************************)
\* C13: right after rerank_documents, top_documents has exactly one
\* element, the text the generation call returned, unchanged.
C13_RerankRaw ==
    JustCompleted("rerank_documents") =>
        /\ Len(agent_state["top_documents"]) = 1
        /\ agent_state["top_documents"][1] = ReplyOf("rerank_documents")

(***************************************************************************)
(* C16                                                                     *)
(***************************************************************************)
\* the question the rewriter was entered with
EntryQuestion ==
    IF CallsOf("rewriter") # {}
    THEN RequestOf("rewriter").inputs.question
    ELSE agent_state["question"]

\* C16: a traversal entered with an empty question does not proceed through
\* the rewriter: the rewriter makes no generation call and does not return.
C16_EmptyQuestionRejected ==
    (Executed("rewriter") /\ EntryQuestion = <<>>) =>
        /\ CallsOf("rewriter") = {}
        /\ ~Completed("rewriter")
        /\ status = "raised"

(***************************************************************************)
(* C17                                                                     *)
(***************************************************************************)
\* C17: once the process is over it has produced a final answer: the
\* llm_output of the traversal, or the "Process ended." sentinel when the
\* traversal was aborted before producing one.
C17_EntryPointAnswer ==
    /\ status = "logged" =>
          /\ "llm_output" \in DOMAIN result
          /\ final_answer = result["llm_output"]
    /\ TraversalAborted => final_answer = PROCESS_ENDED

(***************************************************************************)
(* C18                                                                     *)
(***************************************************************************)
OffTopicRuns ==
    status = "running" /\ phase = "node" /\ node = "off_topic_response"

\* C18: off_topic_response never raises and never invokes an adapter, and
\* its step adds llm_output and leaves every other key of the state as it
\* was.
C18_OffTopicAlwaysSucceeds ==
    /\ [](error.stage # "off_topic_response")
    /\ [](CallsOf("off_topic_response") = {})
    /\ [][OffTopicRuns =>
            /\ calls' = calls
            /\ DOMAIN agent_state' = DOMAIN agent_state \cup {"llm_output"}
            /\ \A k \in DOMAIN agent_state :
                  k # "llm_output" => agent_state'[k] = agent_state[k]]_vars

(***************************************************************************)
(* C19                                                                     *)
(***************************************************************************)
\* the texts of the first three documents the retrieval adapter returned
RetrievedTexts ==
    [i \in 1..Min(Len(Retrieved), 3) |-> Retrieved[i].page_content]

\* C19: the retrieval adapter is queried with the question the rewriter
\* obtained; the classifier and the reranker are given that question and
\* the documents retrieve_documents stored; generate_answer is given that
\* question and, as context, the single text rerank_documents stored.
C19_StateFlows ==
    /\ CallsOf("retrieve_documents") # {} =>
          RequestOf("retrieve_documents") = ReplyOf("rewriter")
    /\ CallsOf("topic_decision") # {} =>
          /\ RequestOf("topic_decision").prompt.human.question = ReplyOf("rewriter")
          /\ RequestOf("topic_decision").prompt.human.documents
                = join(JOIN_SEPARATOR, RetrievedTexts)
    /\ CallsOf("rerank_documents") # {} =>
          /\ RequestOf("rerank_documents").prompt.question = ReplyOf("rewriter")
          /\ RequestOf("rerank_documents").prompt.documents = RetrievedTexts
    /\ CallsOf("generate_answer") # {} =>
          /\ RequestOf("generate_answer").inputs.question = ReplyOf("rewriter")
          /\ RequestOf("generate_answer").inputs.context
                = strip(ReplyOf("rerank_documents"))

C19_Witness ==
    /\ status = "ended"
    /\ CallsOf("generate_answer") # {}
    /\ ReplyOf("rewriter") = T_PADDED
    /\ Len(RetrievedTexts) = 3
    /\ ReplyOf("rerank_documents") = T_YES

(***************************************************************************)
(* C20                                                                     *)
(***************************************************************************)
NEWLINE == <<"\n">>

\* C20: the documents embedded in the classifier prompt and the context of
\* generate_answer are the elements of top_documents joined by the newline
\* character.
C20_NewlineJoined ==
    /\ CallsOf("topic_decision") # {} =>
          RequestOf("topic_decision").prompt.human.documents
             = join(NEWLINE, RetrievedTexts)
    /\ CallsOf("generate_answer") # {} =>
          RequestOf("generate_answer").inputs.context
             = join(NEWLINE, agent_state["top_documents"])

(***************************************************************************)
(* C14                                                                     *)
(***************************************************************************)
\* the value of LLM_TYPE that names the hosted backend
HOSTED_VALUE == "openai"

\* C14: every generation call runs on the hosted model only when LLM_TYPE
\* is the hosted backend's own value, and on the local Ollama model when
\* LLM_TYPE is unset, "ollama" or any other value; the retrieval adapter's
\* embeddings are chosen in the same way.
C14_BackendSelection ==
    \A i \in 1..Len(calls) :
        /\ calls[i].adapter = "generation" =>
              calls[i].backend =
                 IF environ = HOSTED_VALUE THEN "ChatOpenAI" ELSE "ChatOllama"
        /\ calls[i].adapter = "retrieval" =>
              calls[i].backend =
                 IF environ = HOSTED_VALUE THEN "OpenAIEmbeddings"
                                           ELSE "OllamaEmbeddings"

(***************************************************************************)
(* C15                                                                     *)
(***************************************************************************)
\* what node n does to state on receiving reply
NodeResult(n, state, reply) ==
    CASE n = "rewriter" -> rewriter_result(state, reply)
      [] n = "retrieve_documents" -> retrieve_documents_result(state, reply)
      [] n = "topic_decision" -> question_classifier_result(state, reply)
      [] n = "off_topic_response" -> off_topic_response_result(state)
      [] n = "rerank_documents" -> rerank_documents_result(state, reply)
      [] n = "generate_answer" -> generate_answer_result(state, reply)

\* the state and position of a traversal that runs alone from node n on
\* state and receives the replies rs
RECURSIVE RunAlone(_, _, _)
RunAlone(state, n, rs) ==
    IF rs = <<>> THEN [state |-> state, position |-> n]
    ELSE LET new_state == NodeResult(n, state, Head(rs))
         IN  RunAlone(new_state, next_node(n, new_state), Tail(rs))

Alone(t) == RunAlone(input_state(t), entry_point, replies[t])

\* C15 (state part): under every interleaving, the state of each traversal
\* is the state it would have if it had run alone with the same replies.
C15_AsIfAlone ==
    \A t \in Traversals :
        /\ instances[t] = Alone(t).state
        /\ positions[t] \in {Alone(t).position, "raised"}

\* C15: each traversal's state is what it would be had it run alone with
\* the same adapter replies, and a step changes the state of no traversal
\* but the one that takes it.
C15_Isolation ==
    /\ []C15_AsIfAlone
    /\ [][\A t \in Traversals :
            instances'[t] # instances[t] =>
               /\ positions'[t] # positions[t]
               /\ \A u \in Traversals \ {t} : instances'[u] = instances[u]]_vars

C15_Witness ==
    /\ positions[1] = END
    /\ positions[2] = END
    /\ instances[1]["classification_result"] = "on-topic"
    /\ instances[2]["classification_result"] = "off-topic"
    /\ instances[2]["llm_output"] = OFF_TOPIC_SENTENCE
    /\ instances[1]["llm_output"] = T_ON_CAP
    /\ Len(instances[1]["top_documents"]) = 1
    /\ Len(instances[2]["top_documents"]) = 2

(***************************************************************************)
(* C21                                                                     *)
(***************************************************************************)
\* the invocations of an adapter, and those made by node n
AdapterCalls(adapter) == {i \in 1..Len(calls) : calls[i].adapter = adapter}

AdapterCallsOf(adapter, n) == AdapterCalls(adapter) \cap CallsOf(n)

\* the nodes that invoke the generation adapter on each branch
OnTopicGenerators ==
    {"rewriter", "topic_decision", "rerank_documents", "generate_answer"}

OffTopicGenerators == {"rewriter", "topic_decision"}

\* C21: when app.invoke has returned, the retrieval adapter was invoked
\* exactly once, by retrieve_documents; the generation adapter was invoked
\* exactly four times on the on-topic branch, once by each of rewriter,
\* question_classifier, rerank_documents and generate_answer, and exactly
\* twice on the off-topic branch, once by each of rewriter and
\* question_classifier; and every one of these invocations succeeded.
C21_AdapterInvocations ==
    TraversalReturned =>
       /\ Cardinality(AdapterCalls("retrieval")) = 1
       /\ Cardinality(AdapterCallsOf("retrieval", "retrieve_documents")) = 1
       /\ \A i \in 1..Len(calls) : calls[i].ok
       /\ Completed("generate_answer") \/ Completed("off_topic_response")
       /\ Completed("generate_answer") =>
             /\ Cardinality(AdapterCalls("generation")) = 4
             /\ \A n \in OnTopicGenerators :
                   Cardinality(AdapterCallsOf("generation", n)) = 1
       /\ Completed("off_topic_response") =>
             /\ Cardinality(AdapterCalls("generation")) = 2
             /\ \A n \in OffTopicGenerators :
                   Cardinality(AdapterCallsOf("generation", n)) = 1

C21_Witness ==
    /\ status = "ended"
    /\ Completed("generate_answer")
    /\ Cardinality(AdapterCalls("generation")) = 4
    /\ Cardinality(AdapterCalls("retrieval")) = 1

(***************************************************************************)
(* C22                                                                     *)
(***************************************************************************)
Fields == {"question", "top_documents", "classification_result", "llm_output"}

\* the nodes the claim names as the writers of each field
Owners ==
    [k \in Fields |->
        CASE k = "question" -> {"rewriter"}
          [] k = "top_documents" -> {"retrieve_documents", "rerank_documents"}
          [] k = "classification_result" -> {"topic_decision"}
          [] k = "llm_output" -> {"generate_answer", "off_topic_response"}]

\* field k is added, removed or given another value by the step
FieldChanged(k) ==
    \/ (k \in DOMAIN agent_state) # (k \in DOMAIN agent_state')
    \/ /\ k \in DOMAIN agent_state
       /\ k \in DOMAIN agent_state'
       /\ agent_state'[k] # agent_state[k]

\* every recorded assignment is by an owner of the field, the state has no
\* other fields, and once the rewriter returned question is its reply
C22_OwnersOnly ==
    /\ DOMAIN agent_state \subseteq Fields
    /\ \A i \in 1..Len(writes) :
          /\ writes[i][2] \in Fields
          /\ writes[i][1] \in Owners[writes[i][2]]
    /\ Completed("rewriter") => agent_state["question"] = ReplyOf("rewriter")

\* C22: a step changes a field of the state only if it is the return of a
\* node that owns the field (question: rewriter; top_documents:
\* retrieve_documents and rerank_documents; classification_result:
\* question_classifier; llm_output: generate_answer and off_topic_response)
\* and every other field is left as it was; hence question keeps the
\* rewriter's reply from the return of the rewriter to the end.
C22_FrameEffect ==
    /\ []C22_OwnersOnly
    /\ [][\A k \in Fields :
            FieldChanged(k) =>
               /\ phase = "node"
               /\ node \in Owners[k]
               /\ completed' = Append(completed, node)]_vars
    /\ [][Completed("rewriter") =>
            agent_state'["question"] = agent_state["question"]]_vars

C22_Witness ==
    /\ status = "ended"
    /\ Completed("generate_answer")
    /\ agent_state["question"] = T_OFF
    /\ agent_state["top_documents"] = <<strip(T_PADDED)>>
    /\ agent_state["classification_result"] = "on-topic"
    /\ agent_state["llm_output"] = T_YES

(***************************************************************************)
(* C23                                                                     *)
(***************************************************************************)
\* llm_output was assigned by generate_answer
WrittenByGenerate ==
    \E i \in 1..Len(writes) : writes[i] = <<"generate_answer", "llm_output">>

\* the texts retrieve_documents stored: those of the first 3 documents
StoredByRetrieve ==
    [i \in 1..Min(Len(Retrieved), 3) |-> Retrieved[i].page_content]

\* C23: when app.invoke has returned, classification_result is on-topic
\* exactly when llm_output was assigned by generate_answer and
\* top_documents has exactly one element; on the on-topic branch llm_output
\* is the answer call's reply and the one element is the stored ranking
\* text; otherwise llm_output is the fixed off-topic sentence and
\* top_documents is still the at most 3 texts stored by retrieve_documents.
C23_TerminalAgreement ==
    TraversalReturned =>
       /\ agent_state["classification_result"] \in {"on-topic", "off-topic"}
       /\ agent_state["classification_result"] = "on-topic" <=>
             (WrittenByGenerate /\ Len(agent_state["top_documents"]) = 1)
       /\ agent_state["classification_result"] = "on-topic" =>
             /\ Completed("rerank_documents")
             /\ ~Executed("off_topic_response")
             /\ agent_state["llm_output"] = ReplyOf("generate_answer")
             /\ agent_state["top_documents"] =
                   <<strip(ReplyOf("rerank_documents"))>>
       /\ agent_state["classification_result"] # "on-topic" =>
             /\ Completed("off_topic_response")
             /\ ~Executed("rerank_documents")
             /\ ~Executed("generate_answer")
             /\ agent_state["llm_output"] = OFF_TOPIC_SENTENCE
             /\ Len(agent_state["top_documents"]) <= 3
             /\ agent_state["top_documents"] = StoredByRetrieve

C23_Witness ==
    /\ status = "ended"
    /\ agent_state["classification_result"] = "off-topic"
    /\ agent_state["llm_output"] = OFF_TOPIC_SENTENCE
    /\ Len(Retrieved) = 4
    /\ Len(agent_state["top_documents"]) = 3

====
